---- MODULE Spec2Model ----
(***************************************************************************)
(* State-machine model of synthetic_solar.py (SPAN Panel integration):     *)
(* one run of generate_solar_sensors, from the header call to the          *)
(* template-combination service to the returned triple                     *)
(* (sensor_configs, backing_entities, global_settings).                    *)
(*                                                                         *)
(* Text that the code parses (leg tokens, sensor types, device names) is   *)
(* a sequence of one-character strings; text that the code only builds is  *)
(* a TLA+ string.  Python values that may be of several types are tagged   *)
(* records (PNone, PStr, PInt, PList, PDict); a dict is the sequence of    *)
(* its <<key, value>> pairs in insertion order.                            *)
(***************************************************************************)
EXTENDS Integers, Sequences, FiniteSets, TLC

VARIABLES
    pc,               \* position of the run inside generate_solar_sensors
    span_panel,       \* argument: the panel snapshot
    leg1_circuit,     \* argument: leg 1 token
    leg2_circuit,     \* argument: leg 2 token (may be PNone)
    global_settings,  \* local of generate_solar_sensors
    sensor_configs,   \* local: dict unique id -> sensor config record
    backing_entities, \* local: list of backing entities
    leg1_number,      \* local
    leg2_number,      \* local
    leg_entities,     \* local: dict of the six leg-entity variables
    required_entities,\* local: list of resolved leg entity ids
    template_vars,    \* local: dict of template variables
    idx,              \* loop index into SOLAR_SENSOR_DEFINITIONS
    entity_id,        \* local of the loop body
    combined_result,  \* local: what the awaited service call delivered
    calls,            \* log: calls of combine_yaml_templates, in order
    idlog,            \* log: calls of the synthetic entity-id helpers
    reslog,           \* log: calls of _get_circuit_entity_id
    ret               \* the returned triple, or NoReturn

vars == <<pc, span_panel, leg1_circuit, leg2_circuit, global_settings,
          sensor_configs, backing_entities, leg1_number, leg2_number,
          leg_entities, required_entities, template_vars, idx, entity_id,
          combined_result, calls, idlog, reslog, ret>>

---------------------------------------------------------------------------
(* Python values *)

PNone == [t |-> "none"]
PStr(s) == [t |-> "str", s |-> s]
\* a str held as its characters, for the text the code parses
PText(c) == [t |-> "text", c |-> c]
PInt(n) == [t |-> "int", n |-> n]
PList(l) == [t |-> "list", l |-> l]
PDict(d) == [t |-> "dict", d |-> d]
\* an exception delivered instead of a value
PRaise == [t |-> "raise"]

\* bool(v)
Truthy(v) ==
    CASE v.t = "none" -> FALSE
      [] v.t = "str" -> v.s # ""
      [] v.t = "text" -> v.c # <<>>
      [] v.t = "int" -> v.n # 0
      [] v.t = "list" -> v.l # <<>>
      [] v.t = "dict" -> v.d # <<>>
      [] OTHER -> TRUE

\* isinstance(v, str), isinstance(v, dict)
IsStr(v) == v.t \in {"str", "text"}
IsDict(v) == v.t = "dict"

\* the keys of a dict, in insertion order
Keys(d) == [i \in 1..Len(d) |-> d[i][1]]
\* key in d
HasKey(d, k) == \E i \in 1..Len(d) : d[i][1] = k
\* d[k]
Lookup(d, k) == d[CHOOSE i \in 1..Len(d) : d[i][1] = k][2]
\* d.get(k, default)
Get(d, k, default) == IF HasKey(d, k) THEN Lookup(d, k) ELSE default
\* d[k] = v
Store(d, k, v) ==
    IF HasKey(d, k)
    THEN [i \in 1..Len(d) |-> IF d[i][1] = k THEN <<k, v>> ELSE d[i]]
    ELSE Append(d, <<k, v>>)

---------------------------------------------------------------------------
(* Text *)

\* s.startswith(p)
StartsWith(s, p) == Len(s) >= Len(p) /\ SubSeq(s, 1, Len(p)) = p

\* sub in s
Contains(s, sub) ==
    \E i \in 1..(Len(s) - Len(sub) + 1) : SubSeq(s, i, i + Len(sub) - 1) = sub

\* s.replace(old, new): every non-overlapping occurrence, left to right
RECURSIVE Replace(_, _, _)
Replace(s, old, new) ==
    IF s = <<>> THEN <<>>
    ELSE IF StartsWith(s, old)
         THEN new \o Replace(SubSeq(s, Len(old) + 1, Len(s)), old, new)
         ELSE <<Head(s)>> \o Replace(Tail(s), old, new)

\* the text of a character sequence
RECURSIVE Join(_)
Join(s) == IF s = <<>> THEN "" ELSE Head(s) \o Join(Tail(s))

Digits == <<"0", "1", "2", "3", "4", "5", "6", "7", "8", "9">>
IsDigit(c) == \E i \in 1..10 : Digits[i] = c
DigitVal(c) == (CHOOSE i \in 1..10 : Digits[i] = c) - 1

\* s.strip(), for the blank
RECURSIVE LStrip(_)
LStrip(s) == IF s # <<>> /\ Head(s) = " " THEN LStrip(Tail(s)) ELSE s
RECURSIVE RStrip(_)
RStrip(s) ==
    IF s # <<>> /\ s[Len(s)] = " " THEN RStrip(SubSeq(s, 1, Len(s) - 1)) ELSE s

\* the digits of an integer literal: digits, single underscores between them
DigitsOk(s) ==
    /\ s # <<>>
    /\ IsDigit(s[1])
    /\ IsDigit(s[Len(s)])
    /\ \A i \in 1..Len(s) : IsDigit(s[i]) \/ s[i] = "_"
    /\ \A i \in 1..(Len(s) - 1) : ~(s[i] = "_" /\ s[i + 1] = "_")

RECURSIVE DigitsVal(_, _)
DigitsVal(s, acc) ==
    IF s = <<>> THEN acc
    ELSE IF Head(s) = "_" THEN DigitsVal(Tail(s), acc)
         ELSE DigitsVal(Tail(s), 10 * acc + DigitVal(Head(s)))

\* int(s): PInt(n), or PRaise for the ValueError
ParseInt(s) ==
    LET b == RStrip(LStrip(s))
        signed == b # <<>> /\ Head(b) \in {"+", "-"}
        body == IF signed THEN Tail(b) ELSE b
    IN IF ~DigitsOk(body) THEN PRaise
       ELSE IF signed /\ Head(b) = "-" THEN PInt(0 - DigitsVal(body, 0))
            ELSE PInt(DigitsVal(body, 0))

\* sorted(l), for a list of integers
RECURSIVE Sorted(_)
Sorted(l) ==
    IF l = <<>> THEN <<>>
    ELSE LET m == CHOOSE i \in 1..Len(l) : \A j \in 1..Len(l) : l[i] <= l[j]
         IN <<l[m]>> \o Sorted([k \in 1..(Len(l) - 1) |-> IF k < m THEN l[k] ELSE l[k + 1]])

\* "_".join(str(t) for t in l)
RECURSIVE JoinTabs(_)
JoinTabs(l) ==
    IF l = <<>> THEN ""
    ELSE IF Len(l) = 1 THEN ToString(l[1])
         ELSE ToString(l[1]) \o "_" \o JoinTabs(Tail(l))

\* homeassistant.util.slugify: lower case, every other character an underscore
Lower == [c \in {"S", "P", "s", "p", "a", "n", "e", "l", "x", "2"} |->
            CASE c = "S" -> "s" [] c = "P" -> "p" [] OTHER -> c]
slugify(s) == [i \in 1..Len(s) |-> IF s[i] \in DOMAIN Lower THEN Lower[s[i]] ELSE "_"]

---------------------------------------------------------------------------
(* Static data *)

Chars_power == <<"p", "o", "w", "e", "r">>
Chars_produced == <<"p", "r", "o", "d", "u", "c", "e", "d">>
Chars_consumed == <<"c", "o", "n", "s", "u", "m", "e", "d">>
Chars_energy_ == <<"e", "n", "e", "r", "g", "y", "_">>

SOLAR_SENSOR_DEFINITIONS == <<
    [template |-> "solar_current_power.yaml.txt", sensor_type |-> Chars_power],
    [template |-> "solar_produced_energy.yaml.txt", sensor_type |-> Chars_energy_ \o Chars_produced],
    [template |-> "solar_consumed_energy.yaml.txt", sensor_type |-> Chars_energy_ \o Chars_consumed] >>

NumDefs == Len(SOLAR_SENSOR_DEFINITIONS)

\* "unmapped_tab_"
UnmappedPrefix == <<"u", "n", "m", "a", "p", "p", "e", "d", "_", "t", "a", "b", "_">>

Suffixes == <<"power", "energy_produced", "energy_consumed">>

---------------------------------------------------------------------------
(* _extract_leg_numbers *)

\* one leg, with the prefix looked for anywhere in the token
leg_number_anywhere(token) ==
    IF Contains(token, UnmappedPrefix)
    THEN ParseInt(Replace(token, UnmappedPrefix, <<>>))
    ELSE PInt(0)

\* one leg: int(token.replace("unmapped_tab_", "")) if the token starts with the prefix, else 0
leg_number(token) ==
    IF StartsWith(token, UnmappedPrefix)
    THEN ParseInt(Replace(token, UnmappedPrefix, <<>>))
    ELSE PInt(0)

\* <<leg1_number, leg2_number>> as PInt, or PRaise when int() raises (leg 1 is
\* evaluated first); leg 2 may be None or empty
extract_leg_numbers(l1, l2) ==
    LET n1 == leg_number(l1.c)
        n2 == IF Truthy(l2) THEN leg_number(l2.c) ELSE PInt(0)
    IN IF n1 = PRaise \/ n2 = PRaise THEN PRaise ELSE PList(<<n1.n, n2.n>>)

---------------------------------------------------------------------------
(* _get_leg_entities *)

\* tab_number in circuit.tabs
InTabs(tab, l) == \E i \in 1..Len(l) : l[i] = tab

\* hasattr(circuit, 'tabs') and circuit.tabs and tab_number in circuit.tabs
circuit_uses_tab(circuit, tab) ==
    circuit.has_tabs /\ Truthy(circuit.tabs) /\ InTabs(tab, circuit.tabs.l)

\* the device name of a mapped circuit's entity id
mapped_device_name(panel) ==
    LET device_name_raw ==
            Get(panel.device_info, "name", PText(<<"s", "p", "a", "n", "_", "p", "a", "n", "e", "l">>))
    IN IF Truthy(device_name_raw) THEN Join(slugify(device_name_raw.c)) ELSE "span_panel"

\* the multi-tab id with the tabs in the circuit's own order
mapped_entity_id_unsorted(panel, circuit, tab, suffix) ==
    IF Len(circuit.tabs.l) = 1
    THEN "sensor." \o mapped_device_name(panel) \o "_circuit_" \o ToString(tab) \o "_" \o suffix
    ELSE "sensor." \o mapped_device_name(panel) \o "_circuit_"
            \o JoinTabs(circuit.tabs.l) \o "_" \o suffix

\* the entity id built from the mapped circuit found for the tab
mapped_entity_id(panel, circuit, tab, suffix) ==
    IF Len(circuit.tabs.l) = 1
    THEN "sensor." \o mapped_device_name(panel) \o "_circuit_" \o ToString(tab) \o "_" \o suffix
    ELSE "sensor." \o mapped_device_name(panel) \o "_circuit_"
            \o JoinTabs(Sorted(circuit.tabs.l)) \o "_" \o suffix

\* helpers.get_unmapped_circuit_entity_id: an id made of the tab number and the
\* suffix, or absent; which one is the panel's
get_unmapped_circuit_entity_id(panel, tab, suffix) ==
    IF <<tab, suffix>> \in panel.unmapped_absent THEN PNone
    ELSE IF <<tab, suffix>> \in panel.unmapped_empty THEN PStr("")
    ELSE PStr("sensor.span_panel_unmapped_tab_" \o ToString(tab) \o "_" \o suffix)

\* _get_circuit_entity_id: the first circuit, in the mapping's order, that uses
\* the tab; the unmapped fallback otherwise
get_circuit_entity_id(panel, tab, suffix) ==
    LET cs == panel.circuits
        hits == {i \in 1..Len(cs) : circuit_uses_tab(cs[i], tab)}
    IN IF hits # {}
       THEN LET first == CHOOSE i \in hits : \A j \in hits : i <= j
            IN [tab |-> tab, suffix |-> suffix, via |-> "mapped", circuit |-> cs[first].id,
                value |-> PStr(mapped_entity_id(panel, cs[first], tab, suffix))]
       ELSE [tab |-> tab, suffix |-> suffix, via |-> "unmapped", circuit |-> "",
             value |-> get_unmapped_circuit_entity_id(panel, tab, suffix)]

\* the three resolutions of one leg, or none for a leg that is not configured
leg_resolutions(panel, leg_no) ==
    IF leg_no > 0
    THEN [i \in 1..3 |-> get_circuit_entity_id(panel, leg_no, Suffixes[i])]
    ELSE <<>>

\* the leg's entity of one suffix: the resolution's value, None for an absent leg
leg_entity(res, i) == IF res = <<>> THEN PNone ELSE res[i].value

\* every entity of the leg appended, whatever its type
RECURSIVE collect_required_all(_)
collect_required_all(res) ==
    IF res = <<>> THEN <<>> ELSE <<Head(res).value>> \o collect_required_all(Tail(res))

\* what one leg appends to required_entities: the entities that are strings
RECURSIVE collect_required(_)
collect_required(res) ==
    IF res = <<>> THEN <<>>
    ELSE (IF IsStr(Head(res).value) THEN <<Head(res).value>> ELSE <<>>)
            \o collect_required(Tail(res))

\* x or ""
OrEmpty(v) == IF Truthy(v) THEN v ELSE PStr("")

get_leg_entities(panel, n1, n2) ==
    LET r1 == leg_resolutions(panel, n1)
        r2 == leg_resolutions(panel, n2)
    IN [leg_entities |-> <<
            <<"leg1_power_entity", OrEmpty(leg_entity(r1, 1))>>,
            <<"leg1_produced_entity", OrEmpty(leg_entity(r1, 2))>>,
            <<"leg1_consumed_entity", OrEmpty(leg_entity(r1, 3))>>,
            <<"leg2_power_entity", OrEmpty(leg_entity(r2, 1))>>,
            <<"leg2_produced_entity", OrEmpty(leg_entity(r2, 2))>>,
            <<"leg2_consumed_entity", OrEmpty(leg_entity(r2, 3))>> >>,
        required_entities |-> collect_required(r1) \o collect_required(r2),
        resolutions |-> r1 \o r2]

\* the entities that are no strings, an empty string passing as valid
invalid_entities_type_only(required) ==
    SelectSeq(required, LAMBDA e : ~IsStr(e))

\* [entity for entity in required_entities if not entity or not isinstance(entity, str)]
invalid_entities(required) ==
    SelectSeq(required, LAMBDA e : ~Truthy(e) \/ ~IsStr(e))

---------------------------------------------------------------------------
(* _get_template_attributes *)

\* helpers.construct_tabs_attribute: the circuit's tab numbers, ascending
construct_tabs_attribute(tabs) ==
    IF tabs = <<>> THEN PNone ELSE PStr(JoinTabs(Sorted(tabs)))

\* helpers.construct_voltage_attribute: 120 for one tab, 240 for two
construct_voltage_attribute(tabs) ==
    IF Len(tabs) = 1 THEN PInt(120) ELSE IF Len(tabs) = 2 THEN PInt(240) ELSE PNone

\* <<tabs_attribute, voltage_attribute>>
get_template_attributes(n1, n2) ==
    IF n1 > 0 /\ n2 > 0
    THEN LET tabs_attribute_full == construct_tabs_attribute(<<n1, n2>>)
             voltage == construct_voltage_attribute(<<n1, n2>>)
         IN << IF Truthy(tabs_attribute_full) THEN tabs_attribute_full ELSE PStr(""),
               IF voltage # PNone THEN voltage ELSE PInt(0) >>
    ELSE <<PStr(""), PInt(0)>>

---------------------------------------------------------------------------
(* _generate_sensor_entity_id *)

\* the dual-tab helper chosen as soon as either leg is configured
generate_sensor_entity_id_either(sensor_type, n1, n2) ==
    IF n1 > 0 \/ n2 > 0
    THEN [helper |-> "240v", sensor_type |-> Join(sensor_type), tabs |-> <<n1, n2>>]
    ELSE [helper |-> "120v", sensor_type |-> Join(sensor_type),
          tabs |-> << IF n1 > 0 THEN n1 ELSE n2 >>]

\* which naming helper is called for a sensor type, and with which tabs
generate_sensor_entity_id(sensor_type, n1, n2) ==
    IF n1 > 0 /\ n2 > 0
    THEN [helper |-> "240v", sensor_type |-> Join(sensor_type), tabs |-> <<n1, n2>>]
    ELSE [helper |-> "120v", sensor_type |-> Join(sensor_type),
          tabs |-> << IF n1 > 0 THEN n1 ELSE n2 >>]

\* helpers.construct_120v_synthetic_entity_id / construct_240v_synthetic_entity_id:
\* what a call can deliver: the id, nothing, an empty id, an exception
construct_synthetic_entity_id(call) ==
    { PStr("sensor.span_panel_solar_" \o JoinTabs(call.tabs) \o "_" \o call.sensor_type),
      PNone, PStr(""), PRaise }

\* helpers.construct_synthetic_unique_id
construct_synthetic_unique_id(serial, name) == serial \o "_" \o name

\* the unique id built from the serial number alone
unique_id_serial_only(panel, sensor_def) ==
    construct_synthetic_unique_id(panel.serial_number, "solar")

\* the unique id of a sensor definition
unique_id_of(panel, sensor_def) ==
    construct_synthetic_unique_id(panel.serial_number, "solar_" \o Join(sensor_def.sensor_type))

---------------------------------------------------------------------------
(* _process_sensor_template *)

required_vars(sensor_def) ==
    IF Contains(sensor_def.sensor_type, Chars_power)
    THEN <<"leg1_power_entity", "leg2_power_entity">>
    ELSE IF Contains(sensor_def.sensor_type, Chars_produced)
         THEN <<"leg1_produced_entity", "leg2_produced_entity">>
         ELSE IF Contains(sensor_def.sensor_type, Chars_consumed)
              THEN <<"leg1_consumed_entity", "leg2_consumed_entity">>
              ELSE <<>>

\* the variable counted as missing only when it is absent or None
var_missing_none_only(tv, var) == Get(tv, var, PNone) = PNone

\* not template_vars.get(var) or template_vars[var] == ""
var_missing(tv, var) ==
    \/ ~Truthy(Get(tv, var, PNone))
    \/ Lookup(tv, var) = PStr("")

\* the gate with only the first required variable checked
passes_gate_first_var(sensor_def, tv, eid) ==
    /\ Truthy(eid)
    /\ required_vars(sensor_def) # <<>> => ~var_missing(tv, required_vars(sensor_def)[1])

\* whether the template is rendered at all: entity id and required variables
passes_gate(sensor_def, tv, eid) ==
    /\ Truthy(eid)
    /\ \A i \in 1..Len(required_vars(sensor_def)) : ~var_missing(tv, required_vars(sensor_def)[i])

\* str(value), "" for None
StrOf(v) ==
    CASE v.t = "none" -> PStr("")
      [] v.t = "int" -> PStr(ToString(v.n))
      [] v.t = "text" -> PStr(Join(v.c))
      [] OTHER -> v

string_template_vars(tv, eid) ==
    LET with_id == Store(tv, "entity_id", eid)
    IN [i \in 1..Len(with_id) |-> <<with_id[i][1], StrOf(with_id[i][2])>>]

\* the value _process_sensor_template returns for what the service delivered:
\* None, the final config, or PRaise for an exception it lets through
process_template_result(result, eid) ==
    IF result = PRaise THEN PNone
    ELSE IF ~Truthy(result) \/ ~IsDict(result) \/ ~HasKey(result.d, "sensor_configs")
    THEN PNone
    ELSE LET template_sensors == Lookup(result.d, "sensor_configs")
         IN IF ~Truthy(template_sensors) THEN PNone
            ELSE IF ~IsDict(template_sensors) THEN PRaise
            ELSE LET sensor_config == template_sensors.d[1][2]
                 IN IF ~IsDict(sensor_config) THEN PRaise
                    ELSE PDict(<<
                        <<"entity_id", Get(sensor_config.d, "entity_id", eid)>>,
                        <<"name", Get(sensor_config.d, "name", PStr(""))>>,
                        <<"formula", Get(sensor_config.d, "formula", PStr(""))>>,
                        <<"variables", Get(sensor_config.d, "variables", PDict(<<>>))>>,
                        <<"attributes", Get(sensor_config.d, "attributes", PDict(<<>>))>>,
                        <<"metadata", Get(sensor_config.d, "metadata", PDict(<<>>))>> >>)

\* the loop body rebinding the map to the one new record
store_final_config_rebind(configs, unique_id, final_config) ==
    IF final_config # PRaise /\ Truthy(final_config)
    THEN <<<<unique_id, final_config>>>>
    ELSE configs

\* sensor_configs after the loop body has seen final_config
store_final_config(configs, unique_id, final_config) ==
    IF final_config # PRaise /\ Truthy(final_config)
    THEN Store(configs, unique_id, final_config)
    ELSE configs

---------------------------------------------------------------------------
(* combine_yaml_templates: what the template-combination service can deliver *)

GlobalSettings == PDict(<< <<"device_identifier", PStr("ABC123")>>,
                           <<"metadata", PDict(<< <<"energy_display_precision", PStr("2")>> >>)>> >>)

\* the header call, combine_yaml_templates([], header_placeholders)
HeaderOutcomes ==
    { PRaise,
      PNone,
      PList(<<PStr("global_settings")>>),
      PDict(<< <<"sensor_configs", PDict(<<>>)>> >>),
      PDict(<< <<"global_settings", PNone>>, <<"sensor_configs", PDict(<<>>)>> >>),
      PDict(<< <<"global_settings", GlobalSettings>>, <<"sensor_configs", PDict(<<>>)>> >>) }

\* the sensor the service renders from one template and its variables
RenderedSensor(template, tvars) ==
    PDict(<< <<"entity_id", Lookup(tvars, "entity_id")>>,
             <<"name", PStr(template)>>,
             <<"formula", PStr("leg1 + leg2")>>,
             <<"variables", PDict(tvars)>>,
             <<"attributes", PDict(<< <<"tabs", Lookup(tvars, "tabs_attribute")>>,
                                      <<"voltage", Lookup(tvars, "voltage_attribute")>> >>)>>,
             <<"metadata", PDict(<< <<"device_class", PStr("energy")>> >>)>> >>)

\* the results that carry a sensor: a full record, a record with only a formula
RenderedOk(template, tvars) ==
    { PDict(<< <<"global_settings", GlobalSettings>>,
               <<"sensor_configs", PDict(<< <<template, RenderedSensor(template, tvars)>> >>)>> >>),
      PDict(<< <<"sensor_configs",
                 PDict(<< <<template, PDict(<< <<"formula", PStr("leg1 + leg2")>> >>)>> >>)>> >>) }

\* the results that carry none: an exception, no mapping, no sensor_configs,
\* no entry in sensor_configs, a sensor_configs that is no mapping
RenderedBad ==
    { PRaise,
      PNone,
      PList(<<PStr("sensor_configs")>>),
      PDict(<< <<"global_settings", GlobalSettings>> >>),
      PDict(<< <<"global_settings", GlobalSettings>>, <<"sensor_configs", PDict(<<>>)>> >>),
      PDict(<< <<"sensor_configs", PList(<<PStr("solar")>>)>> >>) }

TemplateOutcomes(template, tvars) == RenderedOk(template, tvars) \cup RenderedBad

---------------------------------------------------------------------------
(* Inputs *)

\* the largest tab number a leg token names
MaxTab == 5
LegTabs == 3..MaxTab

AllPairs(tabs) == { <<t, Suffixes[i]>> : t \in tabs, i \in 1..3 }

Panel(circuits, info, absent, empty) ==
    [serial_number |-> "ABC123", circuits |-> circuits, device_info |-> info,
     unmapped_absent |-> absent, unmapped_empty |-> empty]

Circuit(id, tabs) == [id |-> id, has_tabs |-> TRUE, tabs |-> tabs]

NameSpanPanel == << <<"name", PText(<<"S", "p", "a", "n", " ", "P", "a", "n", "e", "l">>)>> >>

Panels ==
    { \* no mapped circuit, every unmapped entity exists
      Panel(<<>>, NameSpanPanel, {}, {}),
      \* one mapped circuit over tabs 5 and 3
      Panel(<<Circuit("c35", PList(<<5, 3>>))>>, NameSpanPanel, {}, {}),
      \* circuits without tabs, and a single-tab circuit on tab 3; no device name
      Panel(<< [id |-> "bare", has_tabs |-> FALSE, tabs |-> PNone],
               Circuit("none", PNone), Circuit("empty", PList(<<>>)),
               Circuit("c3", PList(<<3>>)), Circuit("c3b", PList(<<3, 4>>)) >>,
            << <<"name", PText(<<>>)>> >>, {}, {}),
      \* the power entity of tab 3 does not exist
      Panel(<<>>, <<>>, {<<3, "power">>}, {}),
      \* the consumed-energy entity of tab 5 is an empty id
      Panel(<<>>, <<>>, {}, {<<5, "energy_consumed">>}),
      \* no unmapped entity exists at all
      Panel(<<>>, <<>>, AllPairs(LegTabs), {}) }

UnmappedToken(t) == PText(UnmappedPrefix \o <<ToString(t)>>)

Leg1Tokens ==
    { UnmappedToken(t) : t \in LegTabs }
        \cup { PText(<<>>),
               PText(<<"3">> \o UnmappedPrefix),
               PText(<<"t", "a", "b", "_", "5">>),
               PText(UnmappedPrefix \o <<"0">>),
               PText(UnmappedPrefix \o <<"-", "3">>),
               PText(UnmappedPrefix) }

Leg2Tokens == Leg1Tokens \cup { PNone }

NoReturn == PNone

---------------------------------------------------------------------------
(* generate_solar_sensors *)

Init ==
    /\ pc = "start"
    /\ span_panel \in Panels
    /\ leg1_circuit \in Leg1Tokens
    /\ leg2_circuit \in Leg2Tokens
    /\ global_settings = PDict(<<>>)
    /\ sensor_configs = <<>>
    /\ backing_entities = <<>>
    /\ leg1_number = 0
    /\ leg2_number = 0
    /\ leg_entities = <<>>
    /\ required_entities = <<>>
    /\ template_vars = <<>>
    /\ idx = 0
    /\ entity_id = PNone
    /\ combined_result = PNone
    /\ calls = <<>>
    /\ idlog = <<>>
    /\ reslog = <<>>
    /\ ret = NoReturn

\* a backing entity returned for every sensor of the map
Return_backed(configs, backing, settings) ==
    [sensor_configs |-> configs, backing_entities |-> Keys(configs), global_settings |-> settings]

\* return sensor_configs, backing_entities, global_settings
Return(configs, backing, settings) ==
    [sensor_configs |-> configs, backing_entities |-> backing, global_settings |-> settings]

\* the early returns: return {}, [], global_settings
ReturnEmpty(settings) == Return(<<>>, <<>>, settings)

\* whether a delivered result carries what its call was made for: a non-null
\* global_settings for the header call (no templates), a sensor_configs mapping
\* with an entry for a template call
Carries(templates, outcome) ==
    /\ outcome # PRaise
    /\ IsDict(outcome)
    /\ IF templates = <<>>
       THEN HasKey(outcome.d, "global_settings") /\ Lookup(outcome.d, "global_settings") # PNone
       ELSE /\ HasKey(outcome.d, "sensor_configs")
            /\ IsDict(Lookup(outcome.d, "sensor_configs"))
            /\ Lookup(outcome.d, "sensor_configs").d # <<>>

\* the log's entry of a service call that is awaited, and of one that has ended
PendingCall(templates) == [templates |-> templates, status |-> "pending", good |-> FALSE]
EndedCall(call, outcome) ==
    [call EXCEPT !.status = "ended", !.good = Carries(call.templates, outcome)]

\* lines 409-420: the header call starts
CallHeader ==
    /\ pc = "start"
    /\ calls' = Append(calls, PendingCall(<<>>))
    /\ pc' = "await_header"
    /\ UNCHANGED <<span_panel, leg1_circuit, leg2_circuit, global_settings, sensor_configs,
                   backing_entities, leg1_number, leg2_number, leg_entities,
                   required_entities, template_vars, idx, entity_id, combined_result,
                   idlog, reslog, ret>>

\* line 420: the awaited header call ends
HeaderReturn ==
    /\ pc = "await_header"
    /\ \E outcome \in HeaderOutcomes :
        /\ combined_result' = outcome
        /\ calls' = [calls EXCEPT ![Len(calls)] = EndedCall(@, outcome)]
    /\ pc' = "header_result"
    /\ UNCHANGED <<span_panel, leg1_circuit, leg2_circuit, global_settings, sensor_configs,
                   backing_entities, leg1_number, leg2_number, leg_entities,
                   required_entities, template_vars, idx, entity_id, idlog, reslog, ret>>

\* global_settings taken from the result without the test for None
header_global_settings_unchecked(result) ==
    IF /\ result # PRaise
       /\ Truthy(result)
       /\ IsDict(result)
       /\ HasKey(result.d, "global_settings")
    THEN Lookup(result.d, "global_settings")
    ELSE PDict(<<>>)

\* lines 421-430: global_settings after the header call
header_global_settings(result) ==
    IF /\ result # PRaise
       /\ Truthy(result)
       /\ IsDict(result)
       /\ HasKey(result.d, "global_settings")
       /\ Lookup(result.d, "global_settings") # PNone
    THEN Lookup(result.d, "global_settings")
    ELSE PDict(<<>>)

LoadGlobalSettings ==
    /\ pc = "header_result"
    /\ global_settings' = header_global_settings(combined_result)
    /\ combined_result' = PNone
    /\ pc' = "extract"
    /\ UNCHANGED <<span_panel, leg1_circuit, leg2_circuit, sensor_configs,
                   backing_entities, leg1_number, leg2_number, leg_entities,
                   required_entities, template_vars, idx, entity_id, calls, idlog,
                   reslog, ret>>

\* lines 433-438: the leg numbers, and the return when no leg is configured
ExtractLegs ==
    /\ pc = "extract"
    /\ LET numbers == extract_leg_numbers(leg1_circuit, leg2_circuit)
       IN IF numbers = PRaise
          THEN /\ pc' = "raised"
               /\ UNCHANGED <<leg1_number, leg2_number, ret>>
          ELSE /\ leg1_number' = numbers.l[1]
               /\ leg2_number' = numbers.l[2]
               /\ IF numbers.l[1] = 0 /\ numbers.l[2] = 0
                  THEN /\ ret' = ReturnEmpty(global_settings)
                       /\ pc' = "done"
                  ELSE /\ ret' = ret
                       /\ pc' = "resolve"
    /\ UNCHANGED <<span_panel, leg1_circuit, leg2_circuit, global_settings, sensor_configs,
                   backing_entities, leg_entities, required_entities, template_vars,
                   idx, entity_id, combined_result, calls, idlog, reslog>>

\* lines 441-457: the leg entities, and the returns when they are not usable
ResolveLegs ==
    /\ pc = "resolve"
    /\ LET got == get_leg_entities(span_panel, leg1_number, leg2_number)
       IN /\ leg_entities' = got.leg_entities
          /\ required_entities' = got.required_entities
          /\ reslog' = reslog \o got.resolutions
          /\ IF got.required_entities = <<>> \/ invalid_entities(got.required_entities) # <<>>
             THEN /\ ret' = ReturnEmpty(global_settings)
                  /\ pc' = "done"
             ELSE /\ ret' = ret
                  /\ pc' = "vars"
    /\ UNCHANGED <<span_panel, leg1_circuit, leg2_circuit, global_settings, sensor_configs,
                   backing_entities, leg1_number, leg2_number, template_vars, idx,
                   entity_id, combined_result, calls, idlog>>

\* lines 463-476: the template variables
build_template_vars(panel, l1, l2, attrs, legs) ==
    << <<"device_identifier", PStr(panel.serial_number)>>,
       <<"power_display_precision", PStr(ToString(0))>>,
       <<"energy_display_precision", PStr(ToString(2))>>,
       <<"leg1_circuit", l1>>,
       <<"leg2_circuit", l2>>,
       <<"tabs_attribute", attrs[1]>>,
       <<"voltage_attribute", PStr(ToString(attrs[2].n))>> >> \o legs

\* lines 460-476
BuildTemplateVars ==
    /\ pc = "vars"
    /\ template_vars' = build_template_vars(span_panel, leg1_circuit, leg2_circuit,
                            get_template_attributes(leg1_number, leg2_number), leg_entities)
    /\ idx' = 1
    /\ pc' = "loop"
    /\ UNCHANGED <<span_panel, leg1_circuit, leg2_circuit, global_settings, sensor_configs,
                   backing_entities, leg1_number, leg2_number, leg_entities,
                   required_entities, entity_id, combined_result, calls, idlog, reslog, ret>>

\* the log's entry of a naming-helper call: the call, and whether it delivered
\* a non-empty id
LoggedIdCall(call, outcome) ==
    [helper |-> call.helper, sensor_type |-> call.sensor_type, tabs |-> call.tabs,
     ok |-> outcome # PRaise /\ IsStr(outcome) /\ Truthy(outcome)]

\* lines 483-492: the sensor's entity id; an exception of the helper ends the
\* loop body (line 505)
GenerateEntityId ==
    /\ pc = "loop"
    /\ idx <= NumDefs
    /\ LET call == generate_sensor_entity_id(SOLAR_SENSOR_DEFINITIONS[idx].sensor_type,
                                             leg1_number, leg2_number)
       IN \E outcome \in construct_synthetic_entity_id(call) :
             /\ idlog' = Append(idlog, LoggedIdCall(call, outcome))
             /\ IF outcome = PRaise
                THEN /\ idx' = idx + 1
                     /\ pc' = "loop"
                     /\ entity_id' = PNone
                ELSE /\ idx' = idx
                     /\ pc' = "process"
                     /\ entity_id' = outcome
    /\ UNCHANGED <<span_panel, leg1_circuit, leg2_circuit, global_settings, sensor_configs,
                   backing_entities, leg1_number, leg2_number, leg_entities,
                   required_entities, template_vars, combined_result, calls, reslog, ret>>

\* lines 286-331: the gate of _process_sensor_template, then the service call
\* starts; a sensor that fails the gate is skipped (lines 497-503)
StartTemplate ==
    /\ pc = "process"
    /\ IF passes_gate(SOLAR_SENSOR_DEFINITIONS[idx], template_vars, entity_id)
       THEN /\ calls' = Append(calls, PendingCall(<<SOLAR_SENSOR_DEFINITIONS[idx].template>>))
            /\ pc' = "await_template"
            /\ UNCHANGED <<idx, entity_id>>
       ELSE /\ idx' = idx + 1
            /\ entity_id' = PNone
            /\ pc' = "loop"
            /\ UNCHANGED calls
    /\ UNCHANGED <<span_panel, leg1_circuit, leg2_circuit, global_settings, sensor_configs,
                   backing_entities, leg1_number, leg2_number, leg_entities,
                   required_entities, template_vars, combined_result, idlog, reslog, ret>>

\* line 331: the awaited template call ends
TemplateReturn ==
    /\ pc = "await_template"
    /\ \E outcome \in TemplateOutcomes(SOLAR_SENSOR_DEFINITIONS[idx].template,
                                       string_template_vars(template_vars, entity_id)) :
        /\ combined_result' = outcome
        /\ calls' = [calls EXCEPT ![Len(calls)] = EndedCall(@, outcome)]
    /\ pc' = "template_result"
    /\ UNCHANGED <<span_panel, leg1_circuit, leg2_circuit, global_settings, sensor_configs,
                   backing_entities, leg1_number, leg2_number, leg_entities,
                   required_entities, template_vars, idx, entity_id, idlog, reslog, ret>>

\* the loop body rendering the same template again after a failure
StoreSensor_retry ==
    /\ pc = "template_result"
    /\ LET final_config == process_template_result(combined_result, entity_id)
       IN /\ sensor_configs' = store_final_config(sensor_configs,
                                  unique_id_of(span_panel, SOLAR_SENSOR_DEFINITIONS[idx]),
                                  final_config)
          /\ IF final_config = PNone
             THEN /\ pc' = "process"
                  /\ UNCHANGED <<idx, entity_id>>
             ELSE /\ pc' = "loop"
                  /\ idx' = idx + 1
                  /\ entity_id' = PNone
    /\ combined_result' = PNone
    /\ UNCHANGED <<span_panel, leg1_circuit, leg2_circuit, global_settings,
                   backing_entities, leg1_number, leg2_number, leg_entities,
                   required_entities, template_vars, calls, idlog, reslog, ret>>

\* lines 335-380 and 497-508: the result becomes the sensor's record, or nothing
StoreSensor ==
    /\ pc = "template_result"
    /\ sensor_configs' = store_final_config(sensor_configs,
                            unique_id_of(span_panel, SOLAR_SENSOR_DEFINITIONS[idx]),
                            process_template_result(combined_result, entity_id))
    /\ combined_result' = PNone
    /\ entity_id' = PNone
    /\ idx' = idx + 1
    /\ pc' = "loop"
    /\ UNCHANGED <<span_panel, leg1_circuit, leg2_circuit, global_settings,
                   backing_entities, leg1_number, leg2_number, leg_entities,
                   required_entities, template_vars, calls, idlog, reslog, ret>>

\* lines 510-511
Finish ==
    /\ pc = "loop"
    /\ idx > NumDefs
    /\ ret' = Return(sensor_configs, backing_entities, global_settings)
    /\ pc' = "done"
    /\ UNCHANGED <<span_panel, leg1_circuit, leg2_circuit, global_settings, sensor_configs,
                   backing_entities, leg1_number, leg2_number, leg_entities,
                   required_entities, template_vars, idx, entity_id, combined_result,
                   calls, idlog, reslog>>

Next ==
    \/ CallHeader
    \/ HeaderReturn
    \/ LoadGlobalSettings
    \/ ExtractLegs
    \/ ResolveLegs
    \/ BuildTemplateVars
    \/ GenerateEntityId
    \/ StartTemplate
    \/ TemplateReturn
    \/ StoreSensor
    \/ Finish

Spec == Init /\ [][Next]_vars

---------------------------------------------------------------------------
(* Vocabulary of the properties *)

Kinds == 1..NumDefs

\* the kind tokens of the unique ids, and the leg-entity variables of each kind
KindName == <<"power", "energy_produced", "energy_consumed">>
KindToken == <<"solar_power", "solar_energy_produced", "solar_energy_consumed">>
KindLegVars == << <<"leg1_power_entity", "leg2_power_entity">>,
                  <<"leg1_produced_entity", "leg2_produced_entity">>,
                  <<"leg1_consumed_entity", "leg2_consumed_entity">> >>

KindUid(k) == construct_synthetic_unique_id(span_panel.serial_number, KindToken[k])
KindTemplate(k) == SOLAR_SENSOR_DEFINITIONS[k].template

NonEmptyStr(v) == v.t = "str" /\ v.s # ""

\* a variable of a dict is a non-empty string
VarSet(d, name) ==
    \E i \in 1..Len(d) : d[i][1] = name /\ NonEmptyStr(d[i][2])

LegVarsSet(k) == VarSet(template_vars, KindLegVars[k][1]) /\ VarSet(template_vars, KindLegVars[k][2])

\* the positions in the call log of the calls made for a kind's template
CallsFor(k) == {i \in 1..Len(calls) : calls[i].templates = <<KindTemplate(k)>>}

HasSensor(configs, k) == \E i \in 1..Len(configs) : configs[i][1] = KindUid(k)
SensorOf(configs, k) == configs[CHOOSE i \in 1..Len(configs) : configs[i][1] = KindUid(k)][2]

Returned == pc = "done" /\ ret # NoReturn

---------------------------------------------------------------------------
(* C1 *)

\* C1: a sensor of a kind enters the sensor map only in a step in which the
\* entity id generated for the kind is a non-empty string and both leg-entity
\* variables of the kind are non-empty strings, and a call of the renderer for a
\* kind's template starts only under the same condition.
C1_EmittedOnlyThroughGate ==
    [][\A k \in Kinds :
        /\ (HasSensor(sensor_configs', k) /\ ~HasSensor(sensor_configs, k))
              => (idx = k /\ NonEmptyStr(entity_id) /\ LegVarsSet(k))
        /\ (CallsFor(k)' # CallsFor(k))
              => (idx = k /\ NonEmptyStr(entity_id) /\ LegVarsSet(k))]_vars

\* a run that emitted one kind and never rendered another, whose leg variable is empty
C1_Witness ==
    /\ Returned
    /\ HasSensor(ret.sensor_configs, 2)
    /\ CallsFor(1) = {}
    /\ ~LegVarsSet(1)

---------------------------------------------------------------------------
(* C2 *)

\* the failures of the service the claim lists
ListedFailure(o) ==
    \/ o = PRaise
    \/ o.t # "dict"
    \/ ~HasKey(o.d, "sensor_configs")
    \/ Lookup(o.d, "sensor_configs") = PDict(<<>>)

\* the first sensor a result carries
FirstSensor(o) == Lookup(o.d, "sensor_configs").d[1][2]

\* the record published for a rendered sensor: its fields, defaulted when absent
Published(sensor, eid) ==
    PDict(<< <<"entity_id", IF HasKey(sensor.d, "entity_id") THEN Lookup(sensor.d, "entity_id") ELSE eid>>,
             <<"name", IF HasKey(sensor.d, "name") THEN Lookup(sensor.d, "name") ELSE PStr("")>>,
             <<"formula", IF HasKey(sensor.d, "formula") THEN Lookup(sensor.d, "formula") ELSE PStr("")>>,
             <<"variables", IF HasKey(sensor.d, "variables") THEN Lookup(sensor.d, "variables") ELSE PDict(<<>>)>>,
             <<"attributes", IF HasKey(sensor.d, "attributes") THEN Lookup(sensor.d, "attributes") ELSE PDict(<<>>)>>,
             <<"metadata", IF HasKey(sensor.d, "metadata") THEN Lookup(sensor.d, "metadata") ELSE PDict(<<>>)>> >>)

\* every record of the map is kept as it is
RecordsKept ==
    \A i \in 1..Len(sensor_configs) :
        \E j \in 1..Len(sensor_configs') : sensor_configs'[j] = sensor_configs[i]

\* C2: when the result of a kind's template call is one of the listed failures,
\* the kind stays out of the sensor map; when the result carries a sensor, the
\* kind enters the map with the record published from that result; in both
\* cases, and in every other step, the records of the other kinds stay as they
\* are; and the returned map holds exactly the kinds whose call carried a sensor.
C2_FailureIsolation ==
    /\ [][/\ RecordsKept
          /\ (pc = "template_result" /\ ListedFailure(combined_result))
                => (sensor_configs' = sensor_configs /\ ~HasSensor(sensor_configs', idx))
          /\ (pc = "template_result" /\ Carries(<<KindTemplate(idx)>>, combined_result))
                => /\ HasSensor(sensor_configs', idx)
                   /\ SensorOf(sensor_configs', idx) = Published(FirstSensor(combined_result), entity_id)
                   /\ Len(sensor_configs') = Len(sensor_configs) + 1]_vars
    /\ [](Returned /\ idx > NumDefs =>
            \A k \in Kinds :
                HasSensor(ret.sensor_configs, k) <=> \E i \in CallsFor(k) : calls[i].good)

\* a run in which a kind failed in the service before and after a kind that succeeded
C2_Witness ==
    /\ Returned
    /\ \E i \in CallsFor(1) : ~calls[i].good
    /\ \E i \in CallsFor(2) : calls[i].good
    /\ \E i \in CallsFor(3) : ~calls[i].good
    /\ HasSensor(ret.sensor_configs, 2)
    /\ Len(ret.sensor_configs) = 1

---------------------------------------------------------------------------
(* C3 *)

TwoLegs == leg1_number > 0 /\ leg2_number > 0

SixLegEntities ==
    \A k \in Kinds : VarSet(leg_entities, KindLegVars[k][1]) /\ VarSet(leg_entities, KindLegVars[k][2])

GoodTemplateCalls == {i \in 1..Len(calls) : calls[i].templates # <<>> /\ calls[i].good}

\* no naming helper and no template call has failed
NothingFailed ==
    /\ \A i \in 1..Len(idlog) : idlog[i].ok
    /\ \A i \in 1..Len(calls) : calls[i].templates # <<>> => calls[i].good

\* C3: a returned run with two configured legs, six non-empty leg entity ids,
\* and no failing naming helper or template call returns exactly three sensors,
\* keyed by the unique ids of (serial, "solar_power"), (serial,
\* "solar_energy_produced") and (serial, "solar_energy_consumed"); every
\* returned map has one entry per template call that carried a sensor, and at
\* most three.
C3_OneEntryPerSuccess ==
    Returned =>
        /\ (TwoLegs /\ SixLegEntities /\ NothingFailed)
              => /\ Len(ret.sensor_configs) = 3
                 /\ \A k \in Kinds : HasSensor(ret.sensor_configs, k)
        /\ Len(ret.sensor_configs) = Cardinality(GoodTemplateCalls)
        /\ Len(ret.sensor_configs) <= 3
        /\ \A i, j \in 1..Len(ret.sensor_configs) :
              ret.sensor_configs[i][1] = ret.sensor_configs[j][1] => i = j

\* the run of C3's first case
C3_Witness ==
    /\ Returned
    /\ TwoLegs /\ SixLegEntities /\ NothingFailed
    /\ Len(ret.sensor_configs) = 3

---------------------------------------------------------------------------
(* C4 *)

\* a token that does not start with "unmapped_tab_" (an absent one included)
NoPrefix(token) ==
    \/ token = PNone
    \/ Len(token.c) < Len(UnmappedPrefix)
    \/ \E i \in 1..Len(UnmappedPrefix) : token.c[i] # UnmappedPrefix[i]

\* C4: when neither leg token starts with "unmapped_tab_", the leg numbers are
\* (0, 0), no leg entity is resolved, no naming helper and no template is
\* called, the run does not raise, and it returns the empty sensor map, the
\* empty backing list and the global settings of the header call.
C4_NoLegsNoSensors ==
    (NoPrefix(leg1_circuit) /\ NoPrefix(leg2_circuit)) =>
        /\ pc \in {"start", "await_header", "header_result", "extract", "done"}
        /\ leg1_number = 0 /\ leg2_number = 0
        /\ reslog = <<>>
        /\ idlog = <<>>
        /\ \A i \in 1..Len(calls) : calls[i].templates = <<>>
        /\ pc = "done" =>
              /\ ret = [sensor_configs |-> <<>>, backing_entities |-> <<>>,
                        global_settings |-> global_settings]
              /\ Len(calls) = 1
              /\ global_settings = IF calls[1].good THEN GlobalSettings ELSE PDict(<<>>)

\* a returned run whose tokens hold the prefix, but not at their start, and
\* whose header call loaded global settings
C4_Witness ==
    /\ Returned
    /\ NoPrefix(leg1_circuit) /\ NoPrefix(leg2_circuit)
    /\ Contains(leg1_circuit.c, UnmappedPrefix)
    /\ leg2_circuit = PNone
    /\ ret.global_settings = GlobalSettings

---------------------------------------------------------------------------
(* C5 *)

SingleLeg ==
    \/ leg1_number > 0 /\ leg2_number = 0
    \/ leg1_number = 0 /\ leg2_number > 0

\* C5: with a single configured leg of tab N, every call of a naming helper is
\* a call of the single-tab helper with tab N, one per kind in order and for
\* all three kinds when the loop has ended, and the attribute builder gives the
\* empty tabs attribute and voltage 0, which are what the template variables hold.
C5_SingleLegNaming ==
    SingleLeg =>
        /\ \A i \in 1..Len(idlog) :
              /\ idlog[i].helper = "120v"
              /\ idlog[i].tabs = << IF leg1_number > 0 THEN leg1_number ELSE leg2_number >>
              /\ i <= NumDefs /\ idlog[i].sensor_type = KindName[i]
        /\ (pc = "loop" /\ idx > NumDefs) => Len(idlog) = NumDefs
        /\ get_template_attributes(leg1_number, leg2_number) = <<PStr(""), PInt(0)>>
        /\ template_vars # <<>> =>
              /\ Lookup(template_vars, "tabs_attribute") = PStr("")
              /\ Lookup(template_vars, "voltage_attribute") = PStr("0")

\* a returned run with only the second leg configured, all three ids generated
C5_Witness ==
    /\ Returned
    /\ leg1_number = 0 /\ leg2_number > 0
    /\ Len(idlog) = NumDefs
    /\ template_vars # <<>>

---------------------------------------------------------------------------
(* C6 *)

\* the resolution of a power entity returned absent
PowerAbsent ==
    \E i \in 1..Len(reslog) : reslog[i].suffix = "power" /\ reslog[i].value = PNone

EnergyLegVarsSet ==
    \A k \in {2, 3} : VarSet(leg_entities, KindLegVars[k][1]) /\ VarSet(leg_entities, KindLegVars[k][2])

\* the naming helper did not fail for the kind; the renderer did not fail for it
KindIdOk(k) == \A i \in 1..Len(idlog) : idlog[i].sensor_type = KindName[k] => idlog[i].ok
KindRenderOk(k) == \A i \in CallsFor(k) : calls[i].good

\* C6: with two configured legs, a power entity whose resolution returned
\* absent and non-empty produced and consumed leg variables, the run returns;
\* when the renderer was called for the two energy kinds and succeeded, and
\* also whenever neither their naming helper nor their renderer failed, the
\* returned map holds the energy_produced and energy_consumed sensors and no
\* power sensor, and the power template was never rendered.
C6_OnlyPowerSkipped ==
    (TwoLegs /\ PowerAbsent /\ EnergyLegVarsSet) =>
        /\ pc # "raised"
        /\ CallsFor(1) = {}
        /\ (Returned /\ ( \/ \A k \in {2, 3} : \E i \in CallsFor(k) : calls[i].good
                          \/ \A k \in {2, 3} : KindIdOk(k) /\ KindRenderOk(k) ))
              => /\ ~HasSensor(ret.sensor_configs, 1)
                 /\ HasSensor(ret.sensor_configs, 2)
                 /\ HasSensor(ret.sensor_configs, 3)
                 /\ Len(ret.sensor_configs) = 2

\* the returned run of C6: power absent, the two energy sensors rendered
C6_Witness ==
    /\ Returned
    /\ TwoLegs /\ PowerAbsent /\ EnergyLegVarsSet
    /\ \A k \in {2, 3} : \E i \in CallsFor(k) : calls[i].good
    /\ Len(ret.sensor_configs) = 2

---------------------------------------------------------------------------
(* C7 *)

\* a circuit has a tab set that contains the tab
SpansTab(circuit, tab) ==
    /\ circuit.has_tabs
    /\ circuit.tabs.t = "list"
    /\ \E i \in 1..Len(circuit.tabs.l) : circuit.tabs.l[i] = tab

TabSet(circuit) == {circuit.tabs.l[i] : i \in 1..Len(circuit.tabs.l)}

\* the tabs of a circuit in ascending order
Ascending(l) ==
    CHOOSE a \in [1..Len(l) -> {l[i] : i \in 1..Len(l)}] :
        /\ \A i, j \in 1..Len(l) : i < j => a[i] <= a[j]
        /\ \A v \in {l[i] : i \in 1..Len(l)} :
              Cardinality({i \in 1..Len(l) : a[i] = v}) = Cardinality({i \in 1..Len(l) : l[i] = v})

\* "<device>_circuit_<tab part>_<suffix>" of a circuit, for the tab asked for
CircuitEntity(circuit, tab, suffix) ==
    PStr("sensor." \o mapped_device_name(span_panel) \o "_circuit_"
         \o (IF Len(circuit.tabs.l) = 1 THEN ToString(tab) ELSE JoinTabs(Ascending(circuit.tabs.l)))
         \o "_" \o suffix)

\* C7: every resolution of a tab that some circuit spans is built from a
\* circuit spanning it, with the tab alone for a one-tab circuit and the tabs
\* ascending and joined by "_" for a circuit of several, and does not consult
\* the unmapped fallback; every resolution of a tab no circuit spans is the
\* fallback's; on a panel with a circuit over tabs {3, 5}, tab 3 and tab 5
\* resolve to the same id, with tab part "3_5".
C7_MappedBeforeUnmapped ==
    \A i \in 1..Len(reslog) :
        LET e == reslog[i]
            cs == span_panel.circuits
            spanning == {j \in 1..Len(cs) : SpansTab(cs[j], e.tab)}
        IN /\ spanning # {} =>
                /\ e.via = "mapped"
                /\ \E j \in spanning : e.value = CircuitEntity(cs[j], e.tab, e.suffix)
           /\ spanning = {} =>
                /\ e.via = "unmapped"
                /\ e.value = get_unmapped_circuit_entity_id(span_panel, e.tab, e.suffix)
           /\ (e.tab \in {3, 5} /\ \E j \in spanning : TabSet(cs[j]) = {3, 5}) =>
                e.value = PStr("sensor.span_panel_circuit_3_5_" \o e.suffix)

\* tab 3 and tab 5 of one circuit both resolved in a run, to the same id
C7_Witness ==
    \E i, j \in 1..Len(reslog) :
        /\ reslog[i].tab = 3 /\ reslog[j].tab = 5
        /\ reslog[i].via = "mapped" /\ reslog[j].via = "mapped"
        /\ reslog[i].circuit = reslog[j].circuit
        /\ reslog[i].value = reslog[j].value

---------------------------------------------------------------------------
(* C8 *)

\* C8: the backing-entity list is empty throughout the run and in whatever
\* the run returns.
C8_NoBackingEntities ==
    /\ backing_entities = <<>>
    /\ ret # NoReturn => ret.backing_entities = <<>>

\* a normal completion with a mix of rendered and failed sensors
C8_Witness ==
    /\ Returned
    /\ idx > NumDefs
    /\ Len(ret.sensor_configs) = 2
    /\ \E i \in 1..Len(calls) : calls[i].templates # <<>> /\ ~calls[i].good

---------------------------------------------------------------------------
(* C9 *)

\* the header call raised, or its result holds no non-null global_settings
HeaderFailed(o) ==
    \/ o = PRaise
    \/ o.t # "dict"
    \/ ~HasKey(o.d, "global_settings")
    \/ Lookup(o.d, "global_settings") = PNone

\* C9: the step that takes the header result sets global_settings to the empty
\* mapping when the header call failed and to the result's global_settings
\* otherwise, changes nothing else of the run and always goes on to the leg
\* extraction; no other step changes global_settings; whatever is returned
\* carries that global_settings.
C9_HeaderFailureTolerated ==
    /\ [][/\ pc = "header_result" =>
               /\ pc' = "extract"
               /\ global_settings' = IF HeaderFailed(combined_result) THEN PDict(<<>>)
                                     ELSE Lookup(combined_result.d, "global_settings")
               /\ UNCHANGED <<span_panel, leg1_circuit, leg2_circuit, sensor_configs,
                              backing_entities, leg1_number, leg2_number, leg_entities,
                              required_entities, template_vars, idx, entity_id, calls,
                              idlog, reslog, ret>>
          /\ pc # "header_result" => global_settings' = global_settings]_vars
    /\ [](/\ ret # NoReturn => ret.global_settings = global_settings
          /\ (pc \notin {"start", "await_header", "header_result"} /\ ~calls[1].good)
                => global_settings = PDict(<<>>))

\* a run whose header call failed and which returned all three sensors
C9_Witness ==
    /\ Returned
    /\ ~calls[1].good
    /\ Len(ret.sensor_configs) = 3
    /\ ret.global_settings = PDict(<<>>)

---------------------------------------------------------------------------
(* C10 *)

\* the kind a template call was made for
KindOfCall(i) == CHOOSE k \in Kinds : calls[i].templates = <<KindTemplate(k)>>

\* C10: the first call of the service is the header call and it is the only
\* header call; every later call is for one kind's template, the kinds in the
\* order power, energy_produced, energy_consumed and none twice; a call is
\* pending only as the last of the log, so each starts after the one before it
\* has ended; there are at most four calls.
C10_SequentialCalls ==
    /\ pc # "start" => Len(calls) >= 1
    /\ Len(calls) >= 1 => calls[1].templates = <<>>
    /\ \A i \in 2..Len(calls) : \E k \in Kinds : calls[i].templates = <<KindTemplate(k)>>
    /\ \A i, j \in 2..Len(calls) : i < j => KindOfCall(i) < KindOfCall(j)
    /\ \A i \in 1..Len(calls) : calls[i].status = "pending" => i = Len(calls)
    /\ Len(calls) <= NumDefs + 1

\* a returned run of four calls
C10_Witness ==
    /\ Returned
    /\ Len(calls) = NumDefs + 1
    /\ \A i \in 1..Len(calls) : calls[i].status = "ended"

---------------------------------------------------------------------------
(* C11 *)

\* the run is past the resolution of the leg entities
PastResolve == pc \notin {"start", "await_header", "header_result", "extract", "resolve", "raised"}

SomeLegConfigured == leg1_number > 0 \/ leg2_number > 0

\* no resolution of a leg entity gave a string
NothingResolved == \A i \in 1..Len(reslog) : reslog[i].value.t # "str"

\* a resolved entity of the required-entities list is the empty string
EmptyRequired == \E i \in 1..Len(required_entities) : required_entities[i] = PStr("")

\* C11: once the leg entities of a run with a configured leg are resolved, if
\* none resolved to a string or a required entity is the empty string, the run
\* has returned the empty sensor map, the empty backing list and the global
\* settings already loaded, without raising, without building the template
\* variables and without a call of a naming helper or of the renderer for a
\* template.
C11_AbortOnUnusableEntities ==
    (PastResolve /\ SomeLegConfigured /\ (NothingResolved \/ EmptyRequired)) =>
        /\ pc = "done"
        /\ ret = [sensor_configs |-> <<>>, backing_entities |-> <<>>,
                  global_settings |-> global_settings]
        /\ template_vars = <<>>
        /\ idlog = <<>>
        /\ \A i \in 1..Len(calls) : calls[i].templates = <<>>
        /\ global_settings = IF calls[1].good THEN GlobalSettings ELSE PDict(<<>>)

\* the abort of a two-leg run in which one required entity is the empty
\* string and the others are usable, after a header call that loaded settings
C11_Witness ==
    /\ Returned
    /\ TwoLegs
    /\ EmptyRequired
    /\ \E i \in 1..Len(required_entities) : required_entities[i] # PStr("")
    /\ ret.global_settings = GlobalSettings

\* the abort of a run with a configured leg of which nothing resolved
C11_NothingResolvedReached ==
    /\ Returned
    /\ SomeLegConfigured
    /\ reslog # <<>>
    /\ NothingResolved

---------------------------------------------------------------------------
(* C12 *)

\* the leg-entity variables of leg 1 and of leg 2
LegVarNames == << <<"leg1_power_entity", "leg1_produced_entity", "leg1_consumed_entity">>,
                  <<"leg2_power_entity", "leg2_produced_entity", "leg2_consumed_entity">> >>

\* the leg that is not configured, in a run with a single leg
IdleLeg == IF leg1_number > 0 THEN 2 ELSE 1

\* C12: in a run with exactly one configured leg, once the leg entities are
\* resolved the three variables of the other leg are the empty string, in
\* leg_entities and in the template variables built from it; no kind has both
\* its leg variables set; the renderer is never called for a template; the
\* sensor map stays empty and an empty sensor map is returned.
C12_SingleLegEmitsNothing ==
    SingleLeg =>
        /\ \A i \in 1..Len(calls) : calls[i].templates = <<>>
        /\ sensor_configs = <<>>
        /\ ret # NoReturn => ret.sensor_configs = <<>>
        /\ pc # "raised"
        /\ PastResolve =>
              \A n \in 1..3 : Lookup(leg_entities, LegVarNames[IdleLeg][n]) = PStr("")
        /\ template_vars # <<>> =>
              /\ \A n \in 1..3 : Lookup(template_vars, LegVarNames[IdleLeg][n]) = PStr("")
              /\ \A k \in Kinds : ~LegVarsSet(k)

\* a returned single-leg run whose configured leg resolved all three entities
\* and whose three sensor entity ids were generated, with nothing emitted
C12_Witness ==
    /\ Returned
    /\ SingleLeg
    /\ leg1_number > 0
    /\ Len(required_entities) = 3
    /\ \A n \in 1..3 : VarSet(leg_entities, LegVarNames[1][n])
    /\ Len(idlog) = NumDefs
    /\ \A i \in 1..Len(idlog) : idlog[i].ok
    /\ idx > NumDefs
    /\ ret.sensor_configs = <<>>

====
